---- MODULE Spec2Model ----
(***************************************************************************)
(* Model of the GPS tracking server of src/app.py: the POST /location      *)
(* ingestion handler, the CSV store bus.csv, the query endpoints and the   *)
(* Server-Sent-Events poll loop of /api/stream.                            *)
(*                                                                         *)
(* A request arrives (an Arrive step), its handler runs as one step (Flask *)
(* view function, everything it reads and writes included) and the client  *)
(* takes the response (Reply).  One iteration of a stream connection's     *)
(* poll loop is one step (Poll).  Under SpecConc the ingestion handler is  *)
(* split at its writes to the file, so that requests served at the same    *)
(* time interleave there.                                                  *)
(*                                                                         *)
(* Of the nine CSV columns the model keeps device_id, latitude, longitude, *)
(* timestamp_iso and timestamp_raw; accuracy, provider, received_at and    *)
(* raw_json are written by the handler and read by nothing in the server.  *)
(***************************************************************************)
EXTENDS Integers, Sequences, FiniteSets, TLC

VARIABLES csv, req, resp, lastSent, writers

vars == <<csv, req, resp, lastSent, writers>>

(***************************************************************************)
(* Bounds of the model.                                                    *)
(***************************************************************************)
MaxRows == 2       \* records ingested under Spec and SpecCold
MaxReports == 3    \* records ingested under SpecStream
MaxFairReports == 3  \* records ingested under SpecStreamFair
NumConns == 2      \* stream connections
NumWriters == 2    \* POST /location requests in progress at once under SpecConc

Conns == 1 .. NumConns
Threads == 1 .. NumWriters

(***************************************************************************)
(* JSON values as request.get_json decodes them.  A value is a record      *)
(* [t, v]: t is the Python type of the decoded value, v its text.          *)
(* Absent is what dict.get returns for a missing key (None), which is also *)
(* what a JSON null decodes to.                                            *)
(***************************************************************************)
Absent == [t |-> "none", v |-> ""]
Num(s) == [t |-> "num", v |-> s]
Str(s) == [t |-> "str", v |-> s]

\* Python truth value of a decoded JSON value: None, 0 and "" are falsy.
Truthy(x) ==
    CASE x.t = "none" -> FALSE
      [] x.t = "num"  -> x.v # "0"
      [] x.t = "str"  -> x.v # ""
      [] OTHER        -> TRUE

\* Python `a or b`: a when a is truthy, else b (whatever b is).
PyOr(a, b) == IF Truthy(a) THEN a ELSE b

(***************************************************************************)
(* Python floats, written the way str(float) prints them (which is what    *)
(* csv.writer stores and what float() reads back).  NoFloat stands for the *)
(* exception float() raises.                                               *)
(***************************************************************************)
NoFloat == "<exception>"
NaN == "nan"

\* float(x) for a decoded JSON value x (src/app.py:100-101).
PyFloat(x) ==
    CASE x.t = "num" /\ x.v = "0" -> "0.0"
      [] x.t = "num" /\ x.v = "1" -> "1.0"
      [] x.t = "str" /\ x.v = "0" -> "0.0"
      [] x.t = "str" /\ x.v = "1" -> "1.0"
      [] x.t = "str" /\ x.v = "nan" -> NaN
      [] OTHER -> NoFloat

\* float(s) for a CSV cell s, or for the default 0 of row.get(key, 0).
PyFloatCell(s) ==
    CASE s = "0.0" -> "0.0"
      [] s = "1.0" -> "1.0"
      [] s = "nan" -> NaN
      [] s = "<default 0>" -> "0.0"
      [] OTHER -> NoFloat

\* Python == on two floats: a NaN equals nothing, itself included.
FloatEq(a, b) == a = b /\ a # NaN

(***************************************************************************)
(* The CSV file.  A line is a record of cells (text).  csv.state says      *)
(* whether bus.csv is absent ("missing"), present and decodable ("ok"), or *)
(* present with bytes open(..., encoding="utf-8") cannot decode            *)
(* ("unreadable"); csv.lines are its lines, the first one being whatever   *)
(* was written first; csv.tail are the cells written after the last line   *)
(* break, a line that is not ended yet (empty between whole rows).         *)
(***************************************************************************)
PyNone == "None"

ColSeq == <<"device_id", "latitude", "longitude", "timestamp_iso", "timestamp_raw">>

Cols == {ColSeq[i] : i \in 1 .. Len(ColSeq)}

\* The row init_csv writes (src/app.py:30-34).
HeaderLine == [c \in Cols |-> c]

Line(dev, lat, lon, iso, raw) ==
    [device_id |-> dev, latitude |-> lat, longitude |-> lon,
     timestamp_iso |-> iso, timestamp_raw |-> raw]

CellsOf(line) == [i \in 1 .. Len(ColSeq) |-> line[ColSeq[i]]]

\* The line made of the given cells, as csv.DictReader maps it to the
\* columns: cells beyond the last column are dropped (they go under the key
\* None), columns beyond the last cell read None.
LineOfCells(cells) ==
    [c \in Cols |->
        LET i == CHOOSE k \in 1 .. Len(ColSeq) : ColSeq[k] = c
        IN  IF i <= Len(cells) THEN cells[i] ELSE PyNone]

\* One write() of some cells at the end of the file opened in mode "a"
\* (which creates the file when it is missing), ending the line or not.
Write(f, cells, eol) ==
    [state |-> IF f.state = "missing" THEN "ok" ELSE f.state,
     lines |-> IF eol THEN Append(f.lines, LineOfCells(f.tail \o cells))
               ELSE f.lines,
     tail |-> IF eol THEN <<>> ELSE f.tail \o cells]

\* The lines a reader of the file gets: the end of the file ends the last
\* line.
FileLines(f) ==
    IF f.tail = <<>> THEN f.lines ELSE Append(f.lines, LineOfCells(f.tail))

\* init_csv (src/app.py:26-34): creates the file with the header only when
\* it does not exist.
init_csv(f) ==
    IF f.state = "missing"
    THEN [state |-> "ok", lines |-> <<HeaderLine>>, tail |-> <<>>]
    ELSE f

\* The file rewritten with the newest row first, right under the header,
\* instead of opened in append mode.
AppendRow_NewestFirst(f, line) ==
    [state |-> IF f.state = "missing" THEN "ok" ELSE f.state,
     lines |-> IF Len(f.lines) = 0 THEN <<line>>
               ELSE <<Head(f.lines), line>> \o Tail(f.lines),
     tail |-> f.tail]

\* open(CSV_FILE, "a") followed by writer.writerow (src/app.py:109-114):
\* creates the file when it is missing, never writes a header.
AppendRow(f, line) == Write(f, CellsOf(line), TRUE)

(***************************************************************************)
(* csv.DictReader: the first line gives the keys, every later line is a    *)
(* dict from those keys to its cells.  A dict row is [keys, cells, set]:   *)
(* keys and cells are lines, set holds the items assigned afterwards       *)
(* (get_latest_locations overwrites "latitude" and "longitude").           *)
(***************************************************************************)
Missing == "<missing>"      \* dict.get(key) on a key the dict lacks: None
Unset == "<unset>"
Default0 == "<default 0>"   \* the default of row.get("latitude", 0)

DictRow(hdr, line) == [keys |-> hdr, cells |-> line, lat |-> Unset, lon |-> Unset]

\* The cell of the last column whose header cell is `key`, else Missing.
\* (Under the schema header the column whose header cell is c is column c.)
CellOf(row, key) ==
    IF row.keys = HeaderLine
    THEN IF key \in Cols THEN row.cells[key] ELSE Missing
    ELSE LET cs == {i \in 1 .. Len(ColSeq) : row.keys[ColSeq[i]] = key}
         IN  IF cs = {} THEN Missing
             ELSE row.cells[ColSeq[CHOOSE i \in cs : \A j \in cs : j <= i]]

\* row.get(key)
Get(row, key) ==
    CASE key = "latitude" /\ row.lat # Unset -> row.lat
      [] key = "longitude" /\ row.lon # Unset -> row.lon
      [] OTHER -> CellOf(row, key)

\* row.get(key, dflt)
GetOr(row, key, dflt) ==
    LET cell == Get(row, key) IN IF cell = Missing THEN dflt ELSE cell

\* list(csv.DictReader(f)) on a file that opened and decoded.
DictReader(lines) ==
    IF Len(lines) = 0 THEN <<>>
    ELSE [i \in 1 .. Len(lines) - 1 |-> DictRow(lines[1], lines[i + 1])]

\* A read that decodes with errors="ignore": it never fails.
Readable_IgnoreErrors(f) == f.state \in {"ok", "unreadable", "missing"}

\* Whether open(CSV_FILE, "r") and the read succeed.
Readable(f) == f.state = "ok"

(***************************************************************************)
(* Request bodies of POST /location.  kind is what request.get_json        *)
(* (force=True, silent=True) returns: "missing" for None (no body, a body  *)
(* that is not JSON, or the JSON text null), "object" for a dict, and      *)
(* "array", "string", "number", "bool" for the other JSON values.  The     *)
(* other fields are the values data.get finds under the keys the handler   *)
(* reads (topic, accuracy, acc, provider, t, source and timestamp are      *)
(* absent in the bodies the model sends).                                  *)
(***************************************************************************)
Body(kind, ty, dev, tid, lat, latitude, lon, longitude, tst) ==
    [kind |-> kind, type_ |-> ty, device_id |-> dev, tid |-> tid,
     topic |-> Absent, lat |-> lat, latitude |-> latitude,
     lon |-> lon, longitude |-> longitude, timestamp |-> Absent, tst |-> tst]

NonObject(kind) ==
    Body(kind, Absent, Absent, Absent, Absent, Absent, Absent, Absent, Absent)

NoBody == NonObject("none")

Huge == "100000000000000000000"   \* a tst datetime.fromtimestamp cannot convert

LatVals == {Absent, Num("0"), Num("1"), Str("1"), Str(""), Str("bad"), Str("nan")}
AltLatVals == {Absent, Num("0"), Num("1")}
LonVals == {Absent, Num("0"), Num("1")}
AltLonVals == {Absent, Num("1")}

\* Every combination of the four coordinate fields, for device "a".
CoordBodies ==
    {Body("object", Absent, Str("a"), Absent, la, lat, lo, lon, Absent) :
        la \in LatVals, lat \in AltLatVals, lo \in LonVals, lon \in AltLonVals}

\* Every combination of the identity and timestamp fields.
DeviceBodies ==
    {Body("object", Absent, d, t, c[1], c[2], Num("1"), Absent, ts) :
        d \in {Absent, Str(""), Str("a")}, t \in {Absent, Str("b")},
        c \in {<<Num("1"), Absent>>, <<Absent, Num("0")>>,
               <<Str("nan"), Absent>>, <<Absent, Absent>>},
        ts \in {Absent, Num("10"), Num(Huge)}}

\* Bodies that carry a _type.
TypedBodies ==
    {Body("object", ty, Str("a"), Absent, la, Absent, Num("1"), Absent, ts) :
        ty \in {Str("status"), Str("location")},
        la \in {Absent, Num("1")}, ts \in {Absent, Num(Huge)}}

OtherBodies == {NonObject(k) : k \in {"missing", "array", "string", "number", "bool"}}

Bodies == CoordBodies \cup DeviceBodies \cup TypedBodies \cup OtherBodies

(***************************************************************************)
(* parse_timestamp (src/app.py:40-58).  The result is <<timestamp_iso,     *)
(* timestamp_raw>> as csv.writer prints them (None prints as ""), or       *)
(* Raised when datetime.fromtimestamp raises.  The server clock reads      *)
(* "now".                                                                  *)
(***************************************************************************)
Raised == <<"<exception>">>
Now == "now"

\* datetime.fromtimestamp(tst, tz=timezone.utc).isoformat()
IsoOf(s) == IF s = "10" THEN "1970-01-01T00:00:10+00:00" ELSE "<exception>"

parse_timestamp(data) ==
    IF data.kind # "object" THEN <<Now, "">>
    ELSE IF data.timestamp.t = "str" THEN <<data.timestamp.v, data.timestamp.v>>
    ELSE IF data.tst.t = "num"
         THEN IF IsoOf(data.tst.v) = "<exception>" THEN Raised
              ELSE <<IsoOf(data.tst.v), data.tst.v>>
    ELSE <<Now, "">>

(***************************************************************************)
(* Responses.  kind "status" and "error" are the JSON objects              *)
(* {"status": msg} and {"error": msg}; "rows" is a JSON array of rows;     *)
(* "object" is one row as a JSON object ({} when rows is empty);           *)
(* "exception" is an exception no handler catches (Flask answers 500 with  *)
(* its error page); "event" is one `data:` message of the stream and       *)
(* "silence" a poll that yields nothing.                                   *)
(***************************************************************************)
Response(code, kind, msg, rows) ==
    [code |-> code, kind |-> kind, msg |-> msg, rows |-> rows]

NoResp == Response(0, "none", "", <<>>)
Unhandled(exc) == Response(500, "exception", exc, <<>>)

\* The fields the handler resolves (src/app.py:82-90).
DeviceOf(data) ==
    PyOr(PyOr(PyOr(data.device_id, data.tid), data.topic), Str("unknown"))

LatOf(data) == PyOr(data.lat, data.latitude)

LonOf(data) == PyOr(data.lon, data.longitude)

\* The row location() writes for a body that passes validation
\* (src/app.py:111-114).
RowOf(data) ==
    Line(DeviceOf(data).v, PyFloat(LatOf(data)), PyFloat(LonOf(data)),
         parse_timestamp(data)[1], parse_timestamp(data)[2])

\* location() with the status test moved behind the write: a status message
\* that carries coordinates is stored before it is answered.
location_StatusAfterWrite(data, f) ==
    IF data.kind = "missing"
    THEN <<Response(400, "error", "missing json", <<>>), f>>
    ELSE IF data.kind # "object"
    THEN <<Unhandled("AttributeError"), f>>
    ELSE IF parse_timestamp(data) = Raised
    THEN <<Unhandled("OverflowError"), f>>
    ELSE IF PyFloat(LatOf(data)) = NoFloat \/ PyFloat(LonOf(data)) = NoFloat
    THEN IF data.type_ = Str("status")
         THEN <<Response(200, "status", "ignored", <<>>), f>>
         ELSE <<Response(400, "error", "bad lat/lon", <<>>), f>>
    ELSE IF data.type_ = Str("status")
    THEN <<Response(200, "status", "ignored", <<>>), AppendRow(f, RowOf(data))>>
    ELSE <<Response(201, "status", "ok", <<>>), AppendRow(f, RowOf(data))>>

\* location() (src/app.py:65-117): <<response, file afterwards>>.
location(data, f) ==
    IF data.kind = "missing"
    THEN <<Response(400, "error", "missing json", <<>>), f>>
    ELSE IF data.kind # "object"
    THEN <<Unhandled("AttributeError"), f>>          \* data.get on a non-dict
    ELSE IF data.type_ = Str("status")
    THEN <<Response(200, "status", "ignored", <<>>), f>>
    ELSE IF parse_timestamp(data) = Raised
    THEN <<Unhandled("OverflowError"), f>>           \* line 95, before the try
    ELSE IF PyFloat(LatOf(data)) = NoFloat \/ PyFloat(LonOf(data)) = NoFloat
    THEN <<Response(400, "error", "bad lat/lon", <<>>), f>>
    ELSE <<Response(201, "status", "ok", <<>>), AppendRow(f, RowOf(data))>>

(***************************************************************************)
(* Query parameters.  NoArg is a parameter the URL does not give.          *)
(***************************************************************************)
NoArg == "<not given>"
DefaultLimit == 100

\* The texts int() converts; on any other text it raises ValueError.
IsInt(s) == s \in {"0", "1", "2", "3", "-1"}

\* int(s) for the text of a query parameter.
PyInt(s) ==
    CASE s = "0" -> 0
      [] s = "1" -> 1
      [] s = "2" -> 2
      [] s = "3" -> 3
      [] s = "-1" -> 0 - 1

\* Python's seq[start:] for an integer start.
SliceFrom(seq, start) ==
    LET n == Len(seq)
        lo == IF start < 0 THEN (IF n + start < 0 THEN 0 ELSE n + start)
              ELSE (IF start > n THEN n ELSE start)
    IN  SubSeq(seq, lo + 1, n)

\* Python's seq[:stop] for a positive stop.
SliceTo(seq, stop) == SubSeq(seq, 1, IF stop > Len(seq) THEN Len(seq) ELSE stop)

\* recent_locations (src/app.py:124-134).
recent_locations(arg, f) ==
    IF arg # NoArg /\ ~IsInt(arg) THEN Unhandled("ValueError")
    ELSE LET limit == IF arg = NoArg THEN DefaultLimit ELSE PyInt(arg)
         IN  IF Readable(f)
             THEN Response(200, "rows", "", SliceFrom(DictReader(FileLines(f)), 0 - limit))
             ELSE Response(200, "rows", "", <<>>)

(***************************************************************************)
(* get_latest_locations (src/app.py:140-161).  `latest` is a dict: its     *)
(* keys keep the order in which they were first inserted, each holding the *)
(* last row assigned to it.                                                *)
(***************************************************************************)
KeyOf(row) == GetOr(row, "device_id", "unknown")

\* The keys of `latest` in insertion order.
LatestKeys(rows) ==
    LET F[i \in 0 .. Len(rows)] ==
            IF i = 0 THEN <<>>
            ELSE LET prev == F[i - 1]
                 IN  IF \E j \in 1 .. Len(prev) : prev[j] = KeyOf(rows[i])
                     THEN prev
                     ELSE Append(prev, KeyOf(rows[i]))
    IN  F[Len(rows)]

\* The reducer keeping the first row of a device instead of the last
\* (`latest.setdefault(device, row)`).
LatestRow_FirstWins(rows, key) ==
    LET is == {i \in 1 .. Len(rows) : KeyOf(rows[i]) = key}
    IN  rows[CHOOSE i \in is : \A j \in is : i <= j]

\* latest[key] after the loop of lines 146-148.
LatestRow(rows, key) ==
    LET is == {i \in 1 .. Len(rows) : KeyOf(rows[i]) = key}
    IN  rows[CHOOSE i \in is : \A j \in is : j <= i]

\* Lines 152-157: both coordinates become floats, or both None.
Coerce(row) ==
    LET la == PyFloatCell(GetOr(row, "latitude", Default0))
        lo == PyFloatCell(GetOr(row, "longitude", Default0))
    IN  IF la = NoFloat \/ lo = NoFloat
        THEN [row EXCEPT !.lat = PyNone, !.lon = PyNone]
        ELSE [row EXCEPT !.lat = la, !.lon = lo]

get_latest_locations(f) ==
    IF ~Readable(f) THEN <<>>
    ELSE LET rows == DictReader(FileLines(f))
             keys == LatestKeys(rows)
         IN  [k \in 1 .. Len(keys) |-> Coerce(LatestRow(rows, keys[k]))]

\* api_vehicles (src/app.py:168-174).
api_vehicles(arg, f) ==
    IF arg # NoArg /\ ~IsInt(arg) THEN Unhandled("ValueError")
    ELSE LET limit == IF arg = NoArg THEN 0 ELSE PyInt(arg)
             vehicles == get_latest_locations(f)
         IN  Response(200, "rows", "",
                      IF limit > 0 THEN SliceTo(vehicles, limit) ELSE vehicles)

\* api_vehicle with `return jsonify({}), 404` inside the loop: only the first
\* vehicle is compared.
api_vehicle_FirstOnly(device_id, f) ==
    LET vehicles == get_latest_locations(f)
    IN  IF Len(vehicles) > 0 /\ Get(vehicles[1], "device_id") = device_id
        THEN Response(200, "object", "", <<vehicles[1]>>)
        ELSE Response(404, "object", "", <<>>)

\* api_vehicle (src/app.py:178-183).
api_vehicle(device_id, f) ==
    LET vehicles == get_latest_locations(f)
        is == {i \in 1 .. Len(vehicles) : Get(vehicles[i], "device_id") = device_id}
    IN  IF is = {} THEN Response(404, "object", "", <<>>)
        ELSE Response(200, "object", "",
                      <<vehicles[CHOOSE i \in is : \A j \in is : i <= j]>>)

\* api_locations_all (src/app.py:263-270).
api_locations_all(f) ==
    Response(200, "rows", "", IF Readable(f) THEN DictReader(FileLines(f)) ELSE <<>>)

\* api_locations_latest (src/app.py:274-283).
api_locations_latest(f) ==
    LET reader == IF Readable(f) THEN DictReader(FileLines(f)) ELSE <<>>
    IN  Response(200, "object", "",
                 IF Len(reader) > 0 THEN <<reader[Len(reader)]>> ELSE <<>>)

(***************************************************************************)
(* One iteration of event_stream's loop (src/app.py:241-254) for a         *)
(* connection whose last_sent dict is `sent`.  sent[dev] is the pair of    *)
(* coordinates stored under dev, NotSent when last_sent has no such key.   *)
(***************************************************************************)
DevKeys == {"a", "b", "unknown", Missing}
NotSent == <<>>
EmptySent == [d \in DevKeys |-> NotSent]

\* Python == on two coordinates: None is None; two floats compare by value.
ElemEq(a, b) == IF a = PyNone \/ b = PyNone THEN a = b ELSE FloatEq(a, b)

\* The comparison replaced by `if True:`: every device is sent at every poll.
Differs_Always(old, coords) == old = NotSent \/ old # NotSent

\* The comparison reduced to `dev not in last_sent`: a device is sent the
\* first time it is seen and never again.
Differs_FirstSeenOnly(old, coords) == old = NotSent /\ coords = coords

\* last_sent.get(dev) != coords (src/app.py:246)
Differs(old, coords) ==
    old = NotSent \/ ~ElemEq(old[1], coords[1]) \/ ~ElemEq(old[2], coords[2])

CoordsOf(v) == <<Get(v, "latitude"), Get(v, "longitude")>>

\* The loop with `changed = vehicles` once anything differs: the whole list
\* is sent, and recorded as sent, whenever one device has moved.
PollLoop_SendAll(sent, vehicles) ==
    IF \E i \in 1 .. Len(vehicles) :
          Differs(sent[Get(vehicles[i], "device_id")], CoordsOf(vehicles[i]))
    THEN <<[d \in DevKeys |->
              IF \E i \in 1 .. Len(vehicles) : Get(vehicles[i], "device_id") = d
              THEN CoordsOf(vehicles[CHOOSE i \in 1 .. Len(vehicles) :
                                        Get(vehicles[i], "device_id") = d])
              ELSE sent[d]],
           vehicles>>
    ELSE <<sent, <<>>>>

\* <<last_sent, changed>> after the for loop of lines 243-248.
PollLoop(sent, vehicles) ==
    LET F[i \in 0 .. Len(vehicles)] ==
            IF i = 0 THEN <<sent, <<>>>>
            ELSE LET v == vehicles[i]
                     dev == Get(v, "device_id")
                     prev == F[i - 1]
                 IN  IF Differs(prev[1][dev], CoordsOf(v))
                     THEN <<[prev[1] EXCEPT ![dev] = CoordsOf(v)], Append(prev[2], v)>>
                     ELSE prev
    IN  F[Len(vehicles)]

(***************************************************************************)
(* Requests.                                                               *)
(***************************************************************************)
Request(op, body, arg, conn) == [op |-> op, body |-> body, arg |-> arg, conn |-> conn]

NoReq == Request("none", NoBody, NoArg, 0)

Queries ==
    {Request("recent", NoBody, a, 0) : a \in {NoArg, "0", "1", "2", "-1", "abc"}}
    \cup {Request("vehicles", NoBody, a, 0) : a \in {NoArg, "0", "1", "abc"}}
    \cup {Request("vehicle", NoBody, a, 0) : a \in {"a", "b", "unknown", "zz"}}
    \cup {Request("all", NoBody, NoArg, 0), Request("latest", NoBody, NoArg, 0)}

Idle == req.op = "none"
Pending(op) == req.op = op /\ resp = NoResp

\* A client sends POST /location with body b, while the store holds fewer
\* than cap lines after its first.
ArriveLocation(b, cap) ==
    /\ Idle
    /\ Len(csv.lines) <= cap
    /\ req' = Request("location", b, NoArg, 0)
    /\ UNCHANGED <<csv, resp, lastSent, writers>>

\* A client sends one of the GET requests.
ArriveQuery(q) ==
    /\ Idle
    /\ req' = q
    /\ UNCHANGED <<csv, resp, lastSent, writers>>

Location ==
    /\ Pending("location")
    /\ \E out \in {location(req.body, csv)} :
          /\ resp' = out[1]
          /\ csv' = out[2]
    /\ UNCHANGED <<req, lastSent, writers>>

Recent ==
    /\ Pending("recent")
    /\ resp' = recent_locations(req.arg, csv)
    /\ UNCHANGED <<csv, req, lastSent, writers>>

Vehicles ==
    /\ Pending("vehicles")
    /\ resp' = api_vehicles(req.arg, csv)
    /\ UNCHANGED <<csv, req, lastSent, writers>>

Vehicle ==
    /\ Pending("vehicle")
    /\ resp' = api_vehicle(req.arg, csv)
    /\ UNCHANGED <<csv, req, lastSent, writers>>

LocationsAll ==
    /\ Pending("all")
    /\ resp' = api_locations_all(csv)
    /\ UNCHANGED <<csv, req, lastSent, writers>>

LocationsLatest ==
    /\ Pending("latest")
    /\ resp' = api_locations_latest(csv)
    /\ UNCHANGED <<csv, req, lastSent, writers>>

\* GET /api/stream on connection c: api_stream starts a generator whose
\* last_sent is empty (src/app.py:236-238).
Stream(c) ==
    /\ Idle
    /\ lastSent[c] # EmptySent
    /\ lastSent' = [lastSent EXCEPT ![c] = EmptySent]
    /\ UNCHANGED <<csv, req, resp, writers>>

\* last_sent kept in one module-level dict instead of inside the generator:
\* what one connection sends is recorded as sent for all of them.
Poll_SharedLastSent(c) ==
    /\ Idle
    /\ \E r \in {PollLoop(lastSent[c], get_latest_locations(csv))} :
          /\ lastSent' = [k \in Conns |-> r[1]]
          /\ resp' = IF Len(r[2]) > 0 THEN Response(200, "event", "", r[2])
                     ELSE Response(200, "silence", "", <<>>)
    /\ req' = Request("poll", NoBody, NoArg, c)
    /\ UNCHANGED <<csv, writers>>

\* One iteration of connection c's loop (src/app.py:241-255).
Poll(c) ==
    /\ Idle
    /\ \E r \in {PollLoop(lastSent[c], get_latest_locations(csv))} :
          /\ lastSent' = [lastSent EXCEPT ![c] = r[1]]
          /\ resp' = IF Len(r[2]) > 0 THEN Response(200, "event", "", r[2])
                     ELSE Response(200, "silence", "", <<>>)
    /\ req' = Request("poll", NoBody, NoArg, c)
    /\ UNCHANGED <<csv, writers>>

\* The client takes the response; the exchange is over.
Reply ==
    /\ resp # NoResp
    /\ req' = NoReq
    /\ resp' = NoResp
    /\ UNCHANGED <<csv, lastSent, writers>>

(***************************************************************************)
(* POST /location requests served at the same time.  app.run serves every  *)
(* request on a thread of its own (src/app.py:301), and location() takes   *)
(* no lock around `with open(CSV_FILE, "a") ... writer.writerow(...)`      *)
(* (src/app.py:109-114).  writers[t] is the t-th such request: "idle"      *)
(* before it arrives, "open" once its body has passed validation and the   *)
(* row is ready, "rest" when a part of the row has reached the file,       *)
(* "done" when the row has been written.  The row reaches the file in one  *)
(* write(), or - a write() may transfer less than it was given - in two,   *)
(* and what other requests write meanwhile lands in between.               *)
(***************************************************************************)
NoRow == Line("", "", "", "", "")

IdleWriter == [pc |-> "idle", row |-> NoRow, left |-> <<>>]

\* Lines 66-104 of location(): the body is decoded and validated, the row
\* prepared; nothing is shared with other requests yet.
LocationBegin(t, b) ==
    /\ writers[t].pc = "idle"
    /\ location(b, csv)[1] = Response(201, "status", "ok", <<>>)
    /\ writers' = [writers EXCEPT ![t] = [pc |-> "open", row |-> RowOf(b), left |-> <<>>]]
    /\ UNCHANGED <<csv, req, resp, lastSent>>

\* Lines 109-114, the row written whole.
LocationWrite(t) ==
    /\ writers[t].pc = "open"
    /\ csv' = AppendRow(csv, writers[t].row)
    /\ writers' = [writers EXCEPT ![t].pc = "done"]
    /\ UNCHANGED <<req, resp, lastSent>>

\* Lines 109-114, a write that transfers the first k cells only.
LocationWriteShort(t) ==
    /\ writers[t].pc = "open"
    /\ \E k \in 1 .. Len(ColSeq) - 1 :
          /\ csv' = Write(csv, SubSeq(CellsOf(writers[t].row), 1, k), FALSE)
          /\ writers' = [writers EXCEPT
                            ![t].pc = "rest",
                            ![t].left = SubSeq(CellsOf(writers[t].row), k + 1, Len(ColSeq))]
    /\ UNCHANGED <<req, resp, lastSent>>

\* The write of what the short write left, and the end of the line.
LocationWriteRest(t) ==
    /\ writers[t].pc = "rest"
    /\ csv' = Write(csv, writers[t].left, TRUE)
    /\ writers' = [writers EXCEPT ![t].pc = "done", ![t].left = <<>>]
    /\ UNCHANGED <<req, resp, lastSent>>

(***************************************************************************)
(* Spec: the server started as `python app.py` (src/app.py:298-301), so    *)
(* init_csv has run; ingestion and the query endpoints.                    *)
(***************************************************************************)
NoFile == [state |-> "missing", lines |-> <<>>, tail |-> <<>>]

Init ==
    /\ csv = init_csv(NoFile)
    /\ req = NoReq
    /\ resp = NoResp
    /\ lastSent = [c \in Conns |-> EmptySent]
    /\ writers = [t \in Threads |-> IdleWriter]

Next ==
    \/ \E b \in Bodies : ArriveLocation(b, MaxRows)
    \/ \E q \in Queries : ArriveQuery(q)
    \/ Location
    \/ Recent
    \/ Vehicles
    \/ Vehicle
    \/ LocationsAll
    \/ LocationsLatest
    \/ Reply

Spec == Init /\ [][Next]_vars

(***************************************************************************)
(* SpecStream: the same server with stream connections open: ingestion of  *)
(* valid position reports of two devices, and the poll loops.              *)
(***************************************************************************)
StreamBodies ==
    {Body("object", Absent, d[1], d[2], c[1], c[2], Num("1"), Absent, Absent) :
        d \in {<<Str("a"), Absent>>, <<Absent, Str("b")>>},
        c \in {<<Num("1"), Absent>>, <<Absent, Num("0")>>, <<Str("nan"), Absent>>}}

NextStream ==
    \/ \E b \in StreamBodies : ArriveLocation(b, MaxReports)
    \/ Location
    \/ \E c \in Conns : Stream(c)
    \/ \E c \in Conns : Poll(c)
    \/ Reply

SpecStream == Init /\ [][NextStream]_vars

(***************************************************************************)
(* SpecStreamFair: the server with stream connections open and one device  *)
(* reporting, under the scheduling the server provides.  Every             *)
(* connection's generator loops `while True` with a one-second sleep       *)
(* (src/app.py:240-255), so each connection polls again and again: strong  *)
(* fairness of Poll(c), because in this model a poll waits for the         *)
(* exchange in progress to end.  SF_vars(Poll(c)) is written out with the  *)
(* state predicate that says when Poll(c) is enabled (Idle) and the        *)
(* action that says a step is a Poll(c) step.  A request that has arrived  *)
(* is handled and answered (weak fairness).                                *)
(***************************************************************************)
FairBodies == {b \in StreamBodies : b.device_id = Str("a")}

NextStreamFair ==
    \/ \E b \in FairBodies : ArriveLocation(b, MaxFairReports)
    \/ Location
    \/ \E c \in Conns : Stream(c)
    \/ \E c \in Conns : Poll(c)
    \/ Reply

\* Connection c runs one iteration of its poll loop in this step.
PollStep(c) == req.op = "none" /\ req'.op = "poll" /\ req'.conn = c

\* SF_vars(Poll(c)): ENABLED <<Poll(c)>>_vars is Idle.
PollFairness(c) == <>[](~Idle) \/ []<><<PollStep(c)>>_vars

SpecStreamFair ==
    /\ Init
    /\ [][NextStreamFair]_vars
    /\ \A c \in Conns : PollFairness(c)
    /\ WF_vars(Location)
    /\ WF_vars(Reply)

(***************************************************************************)
(* SpecCold: the server object served without the __main__ block (a WSGI   *)
(* host imports `app`), so init_csv has not run: bus.csv is missing, or is *)
(* a file left behind that does not decode.                                *)
(***************************************************************************)
ColdBodies ==
    {Body("object", Absent, d, Absent, la, Absent, Num("1"), Absent, Absent) :
        d \in {Str("a"), Str("b")}, la \in {Num("1"), Num("0"), Str("1")}}

InitCold ==
    /\ csv \in {NoFile, [state |-> "unreadable", lines |-> <<HeaderLine>>, tail |-> <<>>]}
    /\ req = NoReq
    /\ resp = NoResp
    /\ lastSent = [c \in Conns |-> EmptySent]
    /\ writers = [t \in Threads |-> IdleWriter]

NextCold ==
    \/ \E b \in ColdBodies : ArriveLocation(b, MaxRows)
    \/ \E q \in Queries : ArriveQuery(q)
    \/ Location
    \/ Recent
    \/ Vehicles
    \/ Vehicle
    \/ LocationsAll
    \/ LocationsLatest
    \/ \E c \in Conns : Poll(c)
    \/ Reply

SpecCold == InitCold /\ [][NextCold]_vars

(***************************************************************************)
(* SpecConc: the server started as `python app.py`, with NumWriters valid  *)
(* position reports handled at the same time as each other and as the      *)
(* reads of the store.                                                     *)
(***************************************************************************)
ConcBodies == {b \in StreamBodies : b.lat # Str("nan")}

ConcQueries == {Request(op, NoBody, NoArg, 0) : op \in {"all", "latest", "vehicles"}}

NextConc ==
    \/ \E t \in Threads : \E b \in ConcBodies : LocationBegin(t, b)
    \/ \E t \in Threads : LocationWrite(t)
    \/ \E t \in Threads : LocationWriteShort(t)
    \/ \E t \in Threads : LocationWriteRest(t)
    \/ \E q \in ConcQueries : ArriveQuery(q)
    \/ LocationsAll
    \/ LocationsLatest
    \/ Vehicles
    \/ Reply

SpecConc == Init /\ [][NextConc]_vars

(***************************************************************************)
(* What the specification says of a request body, stated without the       *)
(* handler: field resolution is first-non-null in the listed order, and a  *)
(* coordinate is a JSON number or a text that reads as one.                *)
(***************************************************************************)
FirstNonNull(a, b) == IF a.t # "none" THEN a ELSE b

SpecLat(b) == FirstNonNull(b.lat, b.latitude)
SpecLon(b) == FirstNonNull(b.lon, b.longitude)

\* A finite number: a JSON number, or a text such as "40.1".
IsNumeric(x) == x.t = "num" \/ (x.t = "str" /\ x.v \in {"0", "1"})

\* Anything a number parser accepts, the non-finite texts included.
IsParseable(x) == IsNumeric(x) \/ (x.t = "str" /\ x.v = "nan")

\* The float a numeric value denotes, as str(float) prints it.
NumberText(x) == IF x.v = "0" THEN "0.0" ELSE "1.0"

IsStatus(b) == b.kind = "object" /\ b.type_ = Str("status")
IsPositionReport(b) == b.kind = "object" /\ ~IsStatus(b)

OkResp == Response(201, "status", "ok", <<>>)
IgnoredResp == Response(200, "status", "ignored", <<>>)
MissingJsonResp == Response(400, "error", "missing json", <<>>)
BadLatLonResp == Response(400, "error", "bad lat/lon", <<>>)

\* The handler of POST /location answers in this step.
LocationAnswers == Pending("location") /\ resp' # NoResp

\* A POST /location has been answered and the answer not yet taken.
LocationAnswered == req.op = "location" /\ resp # NoResp

(***************************************************************************)
(* C1.  Every body that is a JSON object, is not a status message and      *)
(* carries numeric latitude and longitude (under lat/lon or                *)
(* latitude/longitude, the value 0 included) is answered 201 ok, and the   *)
(* store grows by exactly the one record of that body: the device, the     *)
(* two coordinates.  (Stated for bodies without a timestamp of their own.) *)
(***************************************************************************)
C1_ValidPayloadStored ==
    [][(/\ LocationAnswers
        /\ IsPositionReport(req.body)
        /\ req.body.tst = Absent
        /\ IsNumeric(SpecLat(req.body))
        /\ IsNumeric(SpecLon(req.body)))
       => /\ resp' = OkResp
          /\ Len(csv'.lines) = Len(csv.lines) + 1
          /\ SubSeq(csv'.lines, 1, Len(csv.lines)) = csv.lines
          /\ csv'.lines[Len(csv'.lines)].latitude = NumberText(SpecLat(req.body))
          /\ csv'.lines[Len(csv'.lines)].longitude = NumberText(SpecLon(req.body))]_vars

(***************************************************************************)
(* C2.  Every POST /location of a position report whose latitude or        *)
(* longitude is missing or does not parse as a number is answered          *)
(* 400 bad lat/lon and leaves the store exactly as it was.                 *)
(***************************************************************************)
C2_BadCoordinatesRejected ==
    [][(/\ LocationAnswers
        /\ IsPositionReport(req.body)
        /\ (~IsParseable(SpecLat(req.body)) \/ ~IsParseable(SpecLon(req.body))))
       => (resp' = BadLatLonResp /\ csv' = csv)]_vars

(***************************************************************************)
(* C3.  A POST /location whose body carries _type = "status" is answered   *)
(* 200 ignored and never changes the store, whatever else the body holds.  *)
(***************************************************************************)
C3_StatusIgnored ==
    [][(LocationAnswers /\ IsStatus(req.body))
       => (resp' = IgnoredResp /\ csv' = csv)]_vars

\* A status message with valid coordinates has been answered "ignored".
C3_Witness ==
    /\ LocationAnswered
    /\ IsStatus(req.body)
    /\ IsNumeric(SpecLat(req.body)) /\ IsNumeric(SpecLon(req.body))
    /\ resp = IgnoredResp

(***************************************************************************)
(* The store as the specification sees it: the records are the lines that  *)
(* follow the schema header, in arrival order.                             *)
(***************************************************************************)
Records == IF Len(csv.lines) > 0 THEN Tail(csv.lines) ELSE <<>>

RecordsOf(id) == {i \in 1 .. Len(Records) : Records[i].device_id = id}

HasRecord(id) == RecordsOf(id) # {}

\* The last record in arrival order whose device_id is id.
LastRecord(id) == Records[CHOOSE i \in RecordsOf(id) : \A j \in RecordsOf(id) : j <= i]

StoredDevices == {Records[i].device_id : i \in 1 .. Len(Records)}

Answered(op) == req.op = op /\ resp # NoResp

\* Entry e of a latest-per-device result is record r, coordinates as floats.
IsEntryOf(e, r) ==
    /\ e.cells = r
    /\ Get(e, "device_id") = r.device_id
    /\ Get(e, "latitude") = r.latitude
    /\ Get(e, "longitude") = r.longitude

(***************************************************************************)
(* C4.  Last-write-wins: LatestForDevice(id), and the entry for id in      *)
(* AllLatest, is the last record in arrival order whose device_id is id,   *)
(* whatever timestamps the records carry.                                  *)
(***************************************************************************)
C4_LastWriteWins ==
    /\ (Answered("vehicle") /\ HasRecord(req.arg))
          => /\ resp.code = 200
             /\ Len(resp.rows) = 1
             /\ IsEntryOf(resp.rows[1], LastRecord(req.arg))
    /\ (Answered("vehicles") /\ req.arg \in {NoArg, "0"})
          => /\ resp.code = 200
             /\ \A d \in StoredDevices :
                   \E i \in 1 .. Len(resp.rows) :
                      /\ IsEntryOf(resp.rows[i], LastRecord(d))
                      /\ \A j \in 1 .. Len(resp.rows) :
                            Get(resp.rows[j], "device_id") = d => j = i

\* LatestForDevice answered for a device with two records of different
\* latitude, the later-appended one carrying the older client timestamp.
C4_Witness ==
    /\ Answered("vehicle")
    /\ Len(Records) = 2
    /\ Records[1].device_id = req.arg /\ Records[2].device_id = req.arg
    /\ Records[1].latitude # Records[2].latitude
    /\ Records[1].timestamp_iso = Now
    /\ Records[2].timestamp_raw = "10"
    /\ Get(resp.rows[1], "latitude") = Records[2].latitude

(***************************************************************************)
(* C6.  Recent(limit) returns, for every limit N >= 0 (N = 0 included,     *)
(* N = 100 when no limit is given), at most N records: exactly the last    *)
(* min(N, history length) records of the store in arrival order.           *)
(***************************************************************************)
ClaimedLimit(arg) == IF arg = NoArg THEN DefaultLimit ELSE PyInt(arg)

LastRecords(n) ==
    LET k == IF n < Len(Records) THEN n ELSE Len(Records)
    IN  SubSeq(Records, Len(Records) - k + 1, Len(Records))

C6_RecentReturnsLastN ==
    (Answered("recent") /\ (req.arg = NoArg \/ req.arg \in {"0", "1", "2", "3"}))
       => /\ resp.code = 200
          /\ Len(resp.rows) <= ClaimedLimit(req.arg)
          /\ Len(resp.rows) = Len(LastRecords(ClaimedLimit(req.arg)))
          /\ \A i \in 1 .. Len(resp.rows) :
                resp.rows[i].cells = LastRecords(ClaimedLimit(req.arg))[i]

(***************************************************************************)
(* C7.  LatestForDevice(id) answers 404 with the empty object if and only  *)
(* if no record of the store has device_id = id; and a device that has a   *)
(* record keeps having one, so it is never "not found" again.              *)
(***************************************************************************)
NotFoundResp == Response(404, "object", "", <<>>)

C7_NotFoundIffNoRecord ==
    /\ [](Answered("vehicle") => (resp = NotFoundResp <=> ~HasRecord(req.arg)))
    /\ [][\A d \in {"a", "b", "unknown", "zz"} : HasRecord(d) => HasRecord(d)']_vars

\* A device without a record is not found while another device has one.
C7_Witness ==
    /\ Answered("vehicle")
    /\ resp = NotFoundResp
    /\ req.arg = "b"
    /\ HasRecord("a")

(***************************************************************************)
(* C8.  A POST /location whose body is valid JSON but not an object        *)
(* (array, string, number, boolean) is answered 400 bad lat/lon and        *)
(* nothing is persisted.                                                   *)
(***************************************************************************)
C8_NonObjectRejectedAtValidation ==
    [][(LocationAnswers /\ req.body.kind \in {"array", "string", "number", "bool"})
       => (resp' = BadLatLonResp /\ csv' = csv)]_vars

(***************************************************************************)
(* C9.  Every request ends in a structured response: POST /location in one *)
(* of 201 ok, 200 ignored, 400 missing json, 400 bad lat/lon (also when    *)
(* tst is out of the convertible range); the query endpoints in a JSON     *)
(* result, whatever the limit parameter.  (Stated for bodies that are      *)
(* absent or JSON objects; the other bodies are the case of C8.)           *)
(***************************************************************************)
C9_StructuredResponses ==
    /\ (LocationAnswered /\ req.body.kind \in {"missing", "object"})
          => resp \in {OkResp, IgnoredResp, MissingJsonResp, BadLatLonResp}
    /\ (resp # NoResp /\ req.op \in {"recent", "vehicles", "vehicle", "all", "latest"})
          => resp.kind \in {"rows", "object"}

(***************************************************************************)
(* C10.  While the store is missing or unreadable every read answers its   *)
(* empty result: Recent, AllLatest and AllRaw an empty array,              *)
(* LatestOverall {}, LatestForDevice not found, and a stream poll emits    *)
(* no event.  (Recent and AllLatest with their limit absent or integer.)   *)
(***************************************************************************)
EmptyRows == Response(200, "rows", "", <<>>)
EmptyObject == Response(200, "object", "", <<>>)

C10_UnavailableStoreReadsEmpty ==
    (~(csv.state = "ok") /\ resp # NoResp)
       => /\ (req.op \in {"recent", "vehicles"} /\ (req.arg = NoArg \/ IsInt(req.arg)))
                => resp = EmptyRows
          /\ req.op = "all" => resp = EmptyRows
          /\ req.op = "latest" => resp = EmptyObject
          /\ req.op = "vehicle" => resp = NotFoundResp
          /\ req.op = "poll" => resp.kind = "silence"

\* Records have been ingested into a store that does not decode, and
\* AllLatest still answers the empty array.
C10_Witness ==
    /\ csv.state = "unreadable"
    /\ Len(csv.lines) > 1
    /\ Answered("vehicles")
    /\ resp = EmptyRows

(***************************************************************************)
(* Streams, as the specification sees them.                                *)
(***************************************************************************)
\* The devices of an event.
EventDevices(rows) == {Get(rows[i], "device_id") : i \in 1 .. Len(rows)}

Finite(r) == r.latitude # "nan" /\ r.longitude # "nan"

\* The pair last sent for a device is the position of record r.
SameCoords(sent, r) == sent[1] = r.latitude /\ sent[2] = r.longitude /\ Finite(r)

\* The places where the position of device d changes from one of its records
\* to its next.
Changes(d) ==
    {i \in RecordsOf(d) :
        \E j \in RecordsOf(d) :
           /\ i < j
           /\ \A k \in RecordsOf(d) : ~(i < k /\ k < j)
           /\ <<Records[i].latitude, Records[i].longitude>>
                 # <<Records[j].latitude, Records[j].longitude>>}

ChangedOnce(d) == Cardinality(Changes(d)) = 1
NeverChanged(d) == HasRecord(d) /\ Changes(d) = {}
AllFinite == \A i \in 1 .. Len(Records) : Finite(Records[i])

(***************************************************************************)
(* C5 as written.  Given ingests in which device A's coordinates change    *)
(* once and device B's never change, a connected stream never emits an     *)
(* event for B alone.  (Stated for finite coordinates.)                    *)
(***************************************************************************)
C5_NoEventForUnchangedAlone ==
    [][\A c \in Conns :
          (PollStep(c) /\ AllFinite /\ ChangedOnce("a") /\ NeverChanged("b"))
             => ~(resp'.kind = "event" /\ EventDevices(resp'.rows) = {"b"})]_vars

(***************************************************************************)
(* C5 as amended.  For a connection that has already sent a device: while  *)
(* the device's latest coordinates equal the pair last sent (B, which      *)
(* never changes), no event of that connection contains it; when they      *)
(* differ (A, which changed), the poll emits one event that contains the   *)
(* device exactly once, with its latest record, and the pair sent becomes  *)
(* that position - so that one change makes exactly one event.             *)
(***************************************************************************)
C5_ChangeEmittedOnce ==
    [][\A c \in Conns : PollStep(c) =>
          \A d \in StoredDevices : lastSent[c][d] # NotSent =>
             IF SameCoords(lastSent[c][d], LastRecord(d))
             THEN /\ d \notin EventDevices(resp'.rows)
                  /\ lastSent'[c][d] = lastSent[c][d]
             ELSE /\ resp'.kind = "event"
                  /\ Cardinality({i \in 1 .. Len(resp'.rows) :
                                     Get(resp'.rows[i], "device_id") = d}) = 1
                  /\ \E i \in 1 .. Len(resp'.rows) :
                        IsEntryOf(resp'.rows[i], LastRecord(d))
                  /\ lastSent'[c][d]
                        = <<LastRecord(d).latitude, LastRecord(d).longitude>>]_vars

\* A reported, then B, then A moved: a connection that had sent B emits an
\* event for A alone.
C5_Witness ==
    /\ Answered("poll")
    /\ resp.kind = "event"
    /\ EventDevices(resp.rows) = {"a"}
    /\ Len(Records) = 3
    /\ Records[1].device_id = "a" /\ Records[2].device_id = "b"
    /\ Records[3].device_id = "a"
    /\ AllFinite /\ ChangedOnce("a") /\ NeverChanged("b")
    /\ lastSent[req.conn]["b"] # NotSent

\* The last record of every stored device.
LastRecords_ByDevice == [d \in StoredDevices |-> LastRecord(d)]

\* The devices whose latest position (last[d]) differs from what connection
\* c last sent for them; a device c has not sent yet differs.
ChangedFor(c, last) ==
    {d \in DOMAIN last :
        \/ lastSent[c][d] = NotSent
        \/ ~SameCoords(lastSent[c][d], last[d])}

(***************************************************************************)
(* C11.  At every poll iteration of a connection an event is emitted if    *)
(* and only if at least one device's latest (latitude, longitude) differs  *)
(* from the connection's lastSent entry (no entry yet counts as            *)
(* different).  The event is one event: it holds the latest record of      *)
(* each changed device, once, and of no unchanged device; and lastSent     *)
(* changes for exactly the changed devices, to the pair sent.  (Two        *)
(* coordinates differ as floats do: a NaN differs from every value.)       *)
(***************************************************************************)
C11_EventIffSomeDeviceChanged ==
    [][\A c \in Conns : PollStep(c) =>
          \A last \in {LastRecords_ByDevice} :
          \A changed \in {ChangedFor(c, last)} :
             /\ resp'.kind = (IF changed # {} THEN "event" ELSE "silence")
             /\ EventDevices(resp'.rows) = changed
             /\ Len(resp'.rows) = Cardinality(changed)
             /\ \A i \in 1 .. Len(resp'.rows) :
                   IsEntryOf(resp'.rows[i], last[Get(resp'.rows[i], "device_id")])
             /\ \A d \in changed :
                   lastSent'[c][d] = <<last[d].latitude, last[d].longitude>>
             /\ \A d \in DevKeys \ changed : lastSent'[c][d] = lastSent[c][d]]_vars

\* Two devices are stored and the connection had sent both; the poll's event
\* holds device b alone, whose position moved since.
C11_Witness ==
    /\ Answered("poll")
    /\ resp.kind = "event"
    /\ EventDevices(resp.rows) = {"b"}
    /\ StoredDevices = {"a", "b"}
    /\ AllFinite
    /\ Cardinality(RecordsOf("b")) = 2
    /\ lastSent[req.conn]["a"] # NotSent

\* Sequence s is the beginning of sequence t.
IsPrefix(s, t) == Len(s) <= Len(t) /\ SubSeq(t, 1, Len(s)) = s

(***************************************************************************)
(* C14.  The store is append-only in arrival order: at every step the      *)
(* content before the step is a prefix of the content after it (no record  *)
(* is updated, deleted or moved), and AllRaw lists the records in the      *)
(* order their ingestions completed, whatever timestamps they carry.       *)
(***************************************************************************)
C14_AppendOnlyArrivalOrder ==
    /\ [][IsPrefix(csv.lines, csv'.lines)]_vars
    /\ [](Answered("all") =>
             /\ Len(resp.rows) = Len(Records)
             /\ \A i \in 1 .. Len(Records) : resp.rows[i].cells = Records[i])

\* AllRaw answered for two records of which the first ingested carries the
\* later event time (the server's clock) and the second the older tst.
C14_Witness ==
    /\ Answered("all")
    /\ Len(Records) = 2
    /\ Records[1].timestamp_iso = Now
    /\ Records[2].timestamp_raw = "10"
    /\ resp.rows[1].cells = Records[1]
    /\ resp.rows[2].cells = Records[2]

(***************************************************************************)
(* C15.  Stream connections are independent.  A poll, and the event it     *)
(* emits, on one connection never changes the lastSent of another, and     *)
(* opening a connection resets only its own.  So the first poll of a       *)
(* newly opened connection on a non-empty store emits every device with    *)
(* its latest record, whatever the other connections have already sent.    *)
(***************************************************************************)
C15_ConnectionsIndependent ==
    [][\A c \in Conns :
          /\ (PollStep(c) \/ lastSent'[c] # lastSent[c])
                => \A k \in Conns \ {c} : lastSent'[k] = lastSent[k]
          /\ (PollStep(c) /\ lastSent[c] = EmptySent /\ Len(Records) > 0)
                => /\ resp'.kind = "event"
                   /\ EventDevices(resp'.rows) = StoredDevices
                   /\ \A d \in StoredDevices :
                         \E i \in 1 .. Len(resp'.rows) :
                            IsEntryOf(resp'.rows[i], LastRecord(d))]_vars

\* Connection 2 emits both devices although connection 1 has sent both at
\* their present positions.
C15_Witness ==
    /\ Answered("poll")
    /\ req.conn = 2
    /\ resp.kind = "event"
    /\ StoredDevices = {"a", "b"}
    /\ EventDevices(resp.rows) = {"a", "b"}
    /\ \A d \in {"a", "b"} :
          lastSent[1][d] # NotSent /\ SameCoords(lastSent[1][d], LastRecord(d))

\* The float a parseable value denotes, as str(float) prints it.
FloatText(x) == IF x.v = "nan" THEN "nan" ELSE NumberText(x)

(***************************************************************************)
(* C17.  Field resolution is first-non-null.  Whenever a POST /location    *)
(* stores a record, its latitude is the value of lat if the body has a     *)
(* non-null lat, else of latitude, and its longitude the value of lon if   *)
(* the body has a non-null lon, else of longitude: a lat or lon that is    *)
(* present, 0 included, is never replaced by the alternate field.          *)
(***************************************************************************)
C17_FirstNonNullResolution ==
    [][(LocationAnswers /\ IsPositionReport(req.body) /\ csv' # csv)
       => /\ IsParseable(SpecLat(req.body))
          /\ IsParseable(SpecLon(req.body))
          /\ csv'.lines[Len(csv'.lines)].latitude = FloatText(SpecLat(req.body))
          /\ csv'.lines[Len(csv'.lines)].longitude = FloatText(SpecLon(req.body))]_vars

\* A value that parses to a float that is not finite.
IsNonFinite(x) == x.t = "str" /\ x.v = "nan"

(***************************************************************************)
(* C18.  Coordinate validation accepts finite numbers only.  A latitude or *)
(* longitude that parses to a non-finite value ("nan", "inf") is answered  *)
(* 400 bad lat/lon and nothing is persisted, so no record of the store     *)
(* ever has a non-finite coordinate.                                       *)
(***************************************************************************)
C18_OnlyFiniteCoordinates ==
    /\ [][(/\ LocationAnswers
           /\ IsPositionReport(req.body)
           /\ req.body.tst = Absent
           /\ (IsNonFinite(SpecLat(req.body)) \/ IsNonFinite(SpecLon(req.body))))
          => (resp' = BadLatLonResp /\ csv' = csv)]_vars
    /\ [](\A i \in 1 .. Len(Records) : Finite(Records[i]))

\* The records ingested so far into a store that exists: every line written
\* by an ingestion, which is every line but the schema header.
Ingested ==
    IF Len(csv.lines) > 0 /\ csv.lines[1] = HeaderLine THEN Tail(csv.lines)
    ELSE csv.lines

(***************************************************************************)
(* C16.  A store that does not exist is initialized with the header        *)
(* before any record is written.  So a store that exists begins with the   *)
(* header; the first record ingested into a non-existent store is a data   *)
(* record; and it is returned by AllRaw, by LatestOverall and by           *)
(* AllLatest.                                                              *)
(***************************************************************************)
C16_HeaderBeforeFirstRecord ==
    (csv.state = "ok")
       => /\ Len(csv.lines) > 0 /\ csv.lines[1] = HeaderLine
          /\ Answered("all")
                => /\ Len(resp.rows) = Len(Ingested)
                   /\ \A i \in 1 .. Len(Ingested) : resp.rows[i].cells = Ingested[i]
          /\ (Answered("latest") /\ Len(Ingested) > 0)
                => /\ Len(resp.rows) = 1
                   /\ resp.rows[1].cells = Ingested[Len(Ingested)]
          /\ (Answered("vehicles") /\ req.arg = NoArg)
                => \A i \in 1 .. Len(Ingested) :
                      \E j \in 1 .. Len(resp.rows) :
                         Get(resp.rows[j], "device_id") = Ingested[i].device_id

(***************************************************************************)
(* C20.  Ingestions between two polls of a connection are coalesced: the   *)
(* poll sees only each device's latest record.  A device whose latest      *)
(* coordinates are again the ones last sent to the connection - it moved   *)
(* and came back, or was re-ingested at the same place with a new          *)
(* timestamp - is in no event; a device that moved several times is in     *)
(* one event, once, with its final record only.                            *)
(***************************************************************************)
C20_IngestionsCoalesced ==
    [][\A c \in Conns : PollStep(c) =>
          \A d \in StoredDevices :
             /\ (/\ Cardinality(RecordsOf(d)) > 1
                 /\ lastSent[c][d] = <<LastRecord(d).latitude, LastRecord(d).longitude>>)
                   => d \notin EventDevices(resp'.rows)
             /\ \A i \in 1 .. Len(resp'.rows) :
                   Get(resp'.rows[i], "device_id") = d
                      => /\ IsEntryOf(resp'.rows[i], LastRecord(d))
                         /\ \A j \in 1 .. Len(resp'.rows) :
                               Get(resp'.rows[j], "device_id") = d => j = i]_vars

\* The latest coordinates of device d are not what connection c last sent.
Unsent(c, d) ==
    /\ HasRecord(d)
    /\ (lastSent[c][d] = NotSent \/ ~SameCoords(lastSent[c][d], LastRecord(d)))

\* Connection c has just emitted an event that holds d's latest record.
EmittedLatest(c, d) ==
    /\ Answered("poll")
    /\ req.conn = c
    /\ resp.kind = "event"
    /\ HasRecord(d)
    /\ \E i \in 1 .. Len(resp.rows) : IsEntryOf(resp.rows[i], LastRecord(d))

\* Device d has just been ingested at the coordinates connection c last sent.
ReingestedAsSent(c, d) ==
    /\ LocationAnswered
    /\ resp = OkResp
    /\ Len(Records) > 0
    /\ Records[Len(Records)].device_id = d
    /\ lastSent[c][d] # NotSent
    /\ SameCoords(lastSent[c][d], LastRecord(d))

(***************************************************************************)
(* C19.  Under fair scheduling of a connection's poll loop: whenever the   *)
(* latest coordinates of a device (device a) differ from the connection's  *)
(* lastSent entry, or the connection has none for it, the connection       *)
(* eventually emits an event containing the device's latest record -       *)
(* unless the device is first re-ingested with the coordinates last sent.  *)
(***************************************************************************)
C19_ChangeEventuallyEmitted ==
    \A c \in Conns :
       Unsent(c, "a") ~> (EmittedLatest(c, "a") \/ ReingestedAsSent(c, "a"))

\* Connection 2 emits the latest record of device a, which has moved since
\* the connection last sent it.
C19_Witness ==
    /\ EmittedLatest(2, "a")
    /\ Cardinality(RecordsOf("a")) = 2
    /\ AllFinite
    /\ lastSent[2]["a"] # <<Records[1].latitude, Records[1].longitude>>
    /\ Changes("a") # {}
    /\ EventDevices(resp.rows) = {"a"}

(***************************************************************************)
(* Concurrent ingestion, as the specification sees it.                     *)
(***************************************************************************)
\* The requests whose append has completed.
Completed == {t \in Threads : writers[t].pc = "done"}

\* No request is in the middle of its append.
NoAppendInProgress == \A t \in Threads : writers[t].pc # "rest"

\* The records are the rows of the completed requests, in some order.
IsSerialOutcome ==
    /\ Len(Records) = Cardinality(Completed)
    /\ \E f \in [1 .. Len(Records) -> Completed] :
          /\ \A i, j \in 1 .. Len(Records) : f[i] = f[j] => i = j
          /\ \A i \in 1 .. Len(Records) : Records[i] = writers[f[i]].row

(***************************************************************************)
(* C12.  Appends are serialized: the writes of two valid ingestions that   *)
(* run concurrently exclude each other, so whenever no append is in        *)
(* progress the store is what some serial order of the completed           *)
(* ingestions produces - every record whole, none interleaved with         *)
(* another, none lost.                                                     *)
(***************************************************************************)
C12_AppendsSerialized ==
    NoAppendInProgress => (csv.tail = <<>> /\ IsSerialOutcome)

(***************************************************************************)
(* C13.  A read that runs concurrently with an append never observes a     *)
(* torn or partial record: every record a read returns is the whole row    *)
(* of an ingestion whose append has completed (the read may only miss the  *)
(* record being written).                                                  *)
(***************************************************************************)
C13_ReadsSeeWholeRecords ==
    (resp # NoResp /\ req.op \in {"all", "latest", "vehicles"})
       => \A i \in 1 .. Len(resp.rows) :
             \E t \in Completed : resp.rows[i].cells = writers[t].row

====
